---- MODULE Spec2Model ----
(***************************************************************************)
(* A model of the more-jpeg server (src/main.rs, src/mimes.rs): template   *)
(* compilation at startup, the warp route set, the upload handler with its *)
(* bitcrush transform and RwLock-protected image map, and the image        *)
(* retrieval handler serve_image.                                          *)
(***************************************************************************)
EXTENDS Integers, Sequences, FiniteSets, TLC

(* ------------------------------ bounds --------------------------------- *)

\* Number of request tasks the runtime runs concurrently (one request each).
NumTasks == 2

\* Largest width/height of the small images in the enumerated inputs.
MaxDim == 2

\* Width in bits of an image dimension.  The program's dimensions are u32;
\* the model computes with the same wrapping arithmetic on DimBits bits, so
\* that the sizes whose doubling overflows can be enumerated.
DimBits == 3

(* ------------------------- program constants --------------------------- *)

\* pub const JPEG_QUALITY: u8 = 25;
JPEG_QUALITY == 25

\* rng.gen_range(10, 30): low and high of the per-pass quality range.
QualityLow == 10
QualityHigh == 30

\* for _ in 0..2
Passes == 2

\* Length of the textual form of a Ulid (26 Crockford base32 digits).
ULID_LEN == 26

\* HTTP status codes used by the handlers and by warp's rejections.
StatusOk == 200
StatusNotFound == 404
StatusMethodNotAllowed == 405
StatusInternalServerError == 500

(* ------------------------------ strings -------------------------------- *)

\* The Crockford base32 alphabet of the textual form of a Ulid.
Alphabet ==
  << "0","1","2","3","4","5","6","7","8","9","A","B","C","D","E","F",
     "G","H","J","K","M","N","P","Q","R","S","T","V","W","X","Y","Z" >>

AlphabetChars == { Alphabet[i] : i \in 1..Len(Alphabet) }

DigitValue(c) == (CHOOSE i \in 1..Len(Alphabet) : Alphabet[i] = c) - 1

RECURSIVE Encode(_, _)
\* The k low base32 digits of n, most significant first.
Encode(n, k) ==
  IF k = 0 THEN << >>
  ELSE Append(Encode(n \div 32, k - 1), Alphabet[(n % 32) + 1])

\* Ulid::to_string (used by format!("/images/{}", id)).
UlidToString(id) == Encode(id, ULID_LEN)

RECURSIVE Decode(_, _)
\* The value of the first k digits of s.
Decode(s, k) ==
  IF k = 0 THEN 0
  ELSE Decode(s, k - 1) * 32 + DigitValue(s[k])

\* Ulid::from_string: Ok(id) for ULID_LEN alphabet digits, Err otherwise.
UlidFromString(s) ==
  IF Len(s) # ULID_LEN THEN [ok |-> FALSE, id |-> 0]
  ELSE IF \E i \in 1..Len(s) : s[i] \notin AlphabetChars
       THEN [ok |-> FALSE, id |-> 0]
       ELSE [ok |-> TRUE, id |-> Decode(s, ULID_LEN)]

JpgSuffix == << ".", "j", "p", "g" >>

EndsWith(s, suf) ==
  /\ Len(s) >= Len(suf)
  /\ SubSeq(s, Len(s) - Len(suf) + 1, Len(s)) = suf

\* A trim that leaves the suffix in place.
TrimEndMatchesKeeps(s, suf) == s

RECURSIVE TrimEndMatches(_, _)
\* str::trim_end_matches: removes the suffix repeatedly.
TrimEndMatches(s, suf) ==
  IF EndsWith(s, suf)
  THEN TrimEndMatches(SubSeq(s, 1, Len(s) - Len(suf)), suf)
  ELSE s

(* ------------------------------- mimes --------------------------------- *)

html == "text/html; charset=utf-8"
css == "text/css; charset=utf-8"
js == "text/javascript; charset=utf-8"
json == "application/json"
\* The content type of the uploaded format kept in place of mime::JPEG.
jpegOfInput == "image/png"

jpeg == "image/jpeg"

(* ----------------------------- the transform --------------------------- *)

\* What the Display of the errors says (the text log::error! writes).
UnknownFormat == "The image format could not be determined"
UnsupportedColor == "Unsupported color type"
JpegFormatError == "Format error decoding Jpeg"
InvalidID == "Invalid ID for image"
SerializeError == "serde_json error"

\* The names the three template routes look up (lines 208, 217, 226), as
\* sequences of characters.
IndexName ==
  << "i", "n", "d", "e", "x", ".", "h", "t", "m", "l" >>

StyleName ==
  << "s", "t", "y", "l", "e", ".", "c", "s", "s" >>

JsName ==
  << "m", "a", "i", "n", ".", "j", "s" >>

TemplateNotFound(name) ==
  CASE name = IndexName -> "template not found: index.html"
    [] name = StyleName -> "template not found: style.css"
    [] name = JsName -> "template not found: main.js"

\* Color types of a decoded image: JPEGEncoder encodes the 8-bit ones only.
Colors == { "Rgb8", "Rgb16" }

NoPixels == [color |-> "", w |-> 0, h |-> 0, rot |-> 0, hue |-> 0]

NoBytes == [w |-> 0, h |-> 0, quality |-> 0, rot |-> 0, hue |-> 0]

\* DynamicImage::resize_exact: stretches to exactly (nwidth, nheight).
resize_exact(img, nwidth, nheight) == [img EXCEPT !.w = nwidth, !.h = nheight]

\* DynamicImage::rotate180: same dimensions, pixels turned.
rotate180(img) == [img EXCEPT !.rot = (img.rot + 180) % 360]

\* DynamicImage::huerotate.
huerotate(img, degrees) == [img EXCEPT !.hue = (img.hue + degrees) % 360]

\* JPEGEncoder::new_with_quality(..).encode_image(&img): an error for a color
\* type the encoder does not support, else bytes holding a frame of the
\* image's size.
encode_image(img, quality) ==
  IF img.color # "Rgb8"
  THEN [ok |-> FALSE, bytes |-> NoBytes, error |-> UnsupportedColor]
  ELSE [ok |-> TRUE, error |-> "",
        bytes |-> [w |-> img.w, h |-> img.h, quality |-> quality,
                   rot |-> img.rot, hue |-> img.hue]]

\* image::load_from_memory_with_format(.., Jpeg): a frame with a zero
\* dimension is a decoding error.
load_jpeg(bytes) ==
  IF bytes.w = 0 \/ bytes.h = 0
  THEN [ok |-> FALSE, img |-> NoPixels, error |-> JpegFormatError]
  ELSE [ok |-> TRUE, error |-> "",
        img |-> [color |-> "Rgb8", w |-> bytes.w, h |-> bytes.h,
                 rot |-> bytes.rot, hue |-> bytes.hue]]

\* The number of values of a dimension.
DimModulus == 2 ^ DimBits

\* orig * 2 as the release build computes it (wrapping); the debug build
\* panics when the product overflows.
WrappingDouble(x) == (x * 2) % DimModulus

DoubleOverflows(x) == x * 2 >= DimModulus

\* A range with both ends included.
gen_rangeInclusive(low, high) == low..high

\* rand::Rng::gen_range(low, high): a value of the half-open range.  The
\* call panics when low >= high, which is when the set is empty.
gen_range(low, high) == { x \in low..high : x < high }

\* The sizes line 119-122 can draw for an original of size (orig_w, orig_h).
TempWidths(orig_w) == gen_range(orig_w \div 2, WrappingDouble(orig_w))
TempHeights(orig_h) == gen_range(orig_h \div 2, WrappingDouble(orig_h))

\* Lines 119-122 can panic: on the overflow of a product (debug build), or
\* on an empty range (any build).
DrawCanPanic(orig_w, orig_h) ==
  \/ DoubleOverflows(orig_w)
  \/ DoubleOverflows(orig_h)
  \/ TempWidths(orig_w) = {}
  \/ TempHeights(orig_h) = {}

\* The qualities line 132 can draw.
Qualities == gen_range(QualityLow, QualityHigh)

\* A pass that leaves the decoded image at the intermediate size.
RestoreSizeSkipped(img, orig_w, orig_h) == img

\* The last statement of the loop body: the decoded image is brought back to
\* the original size.
RestoreSize(img, orig_w, orig_h) == resize_exact(img, orig_w, orig_h)

\* One iteration of the loop of bitcrush (lines 126-137).
CrushPass(current, temp_w, temp_h, quality, orig_w, orig_h) ==
  LET shrunk == huerotate(rotate180(resize_exact(current, temp_w, temp_h)), 180)
      out == encode_image(shrunk, quality)
  IN IF ~out.ok THEN [ok |-> FALSE, img |-> NoPixels, error |-> out.error]
     ELSE LET dec == load_jpeg(out.bytes)
          IN IF ~dec.ok
             THEN [ok |-> FALSE, img |-> NoPixels, error |-> dec.error]
             ELSE [ok |-> TRUE, error |-> "",
                   img |-> RestoreSize(dec.img, orig_w, orig_h)]

RECURSIVE CrushLoop(_, _, _, _, _, _, _)
\* Iterations n+1 .. Passes of the loop, qualities[i] being the i-th draw.
CrushLoop(current, temp_w, temp_h, qualities, orig_w, orig_h, n) ==
  IF n = Passes THEN [ok |-> TRUE, error |-> "", img |-> current]
  ELSE LET r == CrushPass(current, temp_w, temp_h, qualities[n + 1],
                          orig_w, orig_h)
       IN IF ~r.ok THEN r
          ELSE CrushLoop(r.img, temp_w, temp_h, qualities, orig_w, orig_h,
                         n + 1)

\* BitCrush::bitcrush for DynamicImage, the random draws given.
bitcrush(img, temp_w, temp_h, qualities) ==
  CrushLoop(img, temp_w, temp_h, qualities, img.w, img.h, 0)

(* ------------------------------- inputs -------------------------------- *)

\* Request bodies: bytes that are no image, and encodings of images.
JunkBody == [fmt |-> "junk", color |-> "", w |-> 0, h |-> 0]

NoBody == [fmt |-> "", color |-> "", w |-> 0, h |-> 0]

ImageBodies ==
  { [fmt |-> f, color |-> c, w |-> w, h |-> h] :
      f \in {"png"}, c \in Colors, w \in 1..MaxDim, h \in 1..MaxDim }
  \cup { [fmt |-> "jpeg", color |-> "Rgb8", w |-> w, h |-> h] :
           w \in 1..MaxDim, h \in 1..MaxDim }

\* The least width whose doubling overflows, and the greatest width.
WideDims == { DimModulus \div 2, DimModulus - 1 }

\* A bitmap one pixel high and as wide as the least overflowing width.
WideBody ==
  [fmt |-> "pnm", color |-> "Rgb8", w |-> DimModulus \div 2, h |-> 1]

\* image::load_from_memory: guesses the format, decodes.
load_from_memory(body) ==
  IF body.fmt \in {"png", "jpeg", "pnm"}
  THEN [ok |-> TRUE, error |-> "",
        img |-> [color |-> body.color, w |-> body.w, h |-> body.h,
                 rot |-> 0, hue |-> 0]]
  ELSE [ok |-> FALSE, img |-> NoPixels, error |-> UnknownFormat]

(* -------------------------------- state -------------------------------- *)

VARIABLES
  main_pc,    \* where main is: "compile", "serve", or "exit" (returned Err)
  compiled,   \* how many of the template paths compile_templates has done
  templates,  \* State.templates: the names in the TemplateMap
  images,     \* State.images: the HashMap<Ulid, Image> inside the RwLock
  lock,       \* the RwLock: the task holding it for writing, those reading
  ulids,      \* how many ids Ulid::new() has generated
  task,       \* the request tasks: handler, position, locals, response
  crush       \* a bitcrush call on its own: position, locals, result

vars == << main_pc, compiled, templates, images, lock, ulids, task, crush >>

Tasks == 1..NumTasks

NoTask == 0

NoUlid == 0

NoImage == [mime |-> "", contents |-> NoBytes]

NoSeg == << >>

NoPath == [head |-> "", rest |-> NoSeg]

NoResponse == [status |-> 0, ctype |-> "", body |-> [k |-> "none"]]

IdleTask ==
  [handler |-> "idle", pc |-> "idle", method |-> "", path |-> NoPath,
   body |-> NoBody, name |-> NoSeg, id |-> NoUlid, img |-> NoImage,
   src |-> NoPath, resp |-> NoResponse, error |-> ""]

IdleCrush ==
  [pc |-> "idle", orig |-> NoPixels, current |-> NoPixels, temp_w |-> 0,
   temp_h |-> 0, pass |-> 0, quality |-> 0, ok |-> FALSE]

\* The three paths main passes to compile_templates.
IndexPath ==
  << ".", "/", "t", "e", "m", "p", "l", "a", "t", "e", "s", "/", "i", "n",
     "d", "e", "x", ".", "h", "t", "m", "l", ".", "l", "i", "q", "u", "i",
     "d" >>

StylePath ==
  << ".", "/", "t", "e", "m", "p", "l", "a", "t", "e", "s", "/", "s", "t",
     "y", "l", "e", ".", "c", "s", "s", ".", "l", "i", "q", "u", "i", "d" >>

JsPath ==
  << ".", "/", "t", "e", "m", "p", "l", "a", "t", "e", "s", "/", "m", "a",
     "i", "n", ".", "j", "s", ".", "l", "i", "q", "u", "i", "d" >>

TemplatePaths == << IndexPath, StylePath, JsPath >>

\* path.split("/").last(): what follows the last "/".
LastSegment(path) ==
  LET slashes == { i \in 1..Len(path) : path[i] = "/" }
  IN IF slashes = {} THEN path
     ELSE SubSeq(path,
                 (CHOOSE i \in slashes : \A j \in slashes : j <= i) + 1,
                 Len(path))

LiquidSuffix == << ".", "l", "i", "q", "u", "i", "d" >>

\* A name that keeps the ".liquid" of its file.
TemplateNameUntrimmed(path) == LastSegment(path)

\* lines 148-151: the name a template is registered under.
TemplateName(path) == TrimEndMatches(LastSegment(path), LiquidSuffix)

(* ------------------------------- startup ------------------------------- *)

\* State::new(templates): the image map starts empty, the lock free.
StateNew ==
  /\ images = << >>
  /\ lock = [writer |-> NoTask, readers |-> {}]

Init ==
  /\ main_pc = "compile"
  /\ compiled = 0
  /\ templates = {}
  /\ StateNew
  /\ ulids = 0
  /\ task = [t \in Tasks |-> IdleTask]
  /\ crush = IdleCrush

\* One iteration of the loop of compile_templates: the source is read and
\* parsed, or either fails and main returns the error.  After the last path
\* main builds the routes and serves.
compile_templates(ok) ==
  /\ main_pc = "compile"
  /\ compiled < Len(TemplatePaths)
  /\ IF ok
     THEN /\ templates' =
               templates \cup { TemplateName(TemplatePaths[compiled + 1]) }
          /\ compiled' = compiled + 1
          /\ main_pc' = IF compiled + 1 = Len(TemplatePaths)
                        THEN "serve" ELSE "compile"
     ELSE /\ main_pc' = "exit"
          /\ UNCHANGED << templates, compiled >>
  /\ UNCHANGED << images, lock, ulids, task, crush >>

(* ----------------------------- responses ------------------------------- *)

Text(msg) == [k |-> "text", v |-> msg]

Bytes(contents) == [k |-> "bytes", v |-> contents]

Json(src) == [k |-> "json", v |-> src]

Empty == [k |-> "empty"]

\* A boundary that answers with the text of the error.
for_warpLeaks(result) ==
  IF result.ok THEN result.reply
  ELSE [status |-> StatusInternalServerError, ctype |-> "",
        body |-> Text(result.error)]

\* ForWarp::for_warp: a reply as it is, an error as a 500 with a fixed body.
for_warp(result) ==
  IF result.ok THEN result.reply
  ELSE [status |-> StatusInternalServerError, ctype |-> "",
        body |-> Text("Something went wrong, sorry")]

\* ForTide::for_tide: a response as it is, an error as a 500 tide::Error.
for_tide(result) ==
  IF result.ok THEN result.reply
  ELSE [status |-> StatusInternalServerError, ctype |-> "",
        body |-> Text("Something went wrong, sorry!")]

Ok(reply) == [ok |-> TRUE, reply |-> reply, error |-> ""]

\* What the boundary logs of a result: the error's text, or nothing.
Logged(result) == IF result.ok THEN "" ELSE result.error

Err(e) == [ok |-> FALSE, reply |-> NoResponse, error |-> e]

\* template.render: the markup of the template registered under a name.
Render(name) ==
  CASE name = IndexName -> "index.html"
    [] name = StyleName -> "style.css"
    [] name = JsName -> "main.js"

\* serve_template: the template looked up by name and rendered.
serve_template(name, mime) ==
  IF name \notin templates THEN Err(TemplateNotFound(name))
  ELSE Ok([status |-> StatusOk, ctype |-> mime, body |-> Text(Render(name))])

(* ------------------------------- routing ------------------------------- *)

Methods == { "GET", "POST" }

\* The filters main combines: each is a method filter and then a path filter.
Routes == << "index", "style", "js", "upload" >>

RouteMethod(r) == IF r = "upload" THEN "POST" ELSE "GET"

\* warp::path::end(), warp::path!("style.css"), warp::path!("main.js") match
\* the whole path; warp::path("upload") matches its first segment.
RoutePath(r, path) ==
  CASE r = "index" -> path.head = "" /\ path.rest = NoSeg
    [] r = "style" -> path.head = "style.css" /\ path.rest = NoSeg
    [] r = "js" -> path.head = "main.js" /\ path.rest = NoSeg
    [] r = "upload" -> path.head = "upload"

\* What one filter answers: a match, or the rejection of its first failing
\* part.
RouteTry(r, method, path) ==
  IF method # RouteMethod(r) THEN "MethodNotAllowed"
  ELSE IF ~RoutePath(r, path) THEN "NotFound"
  ELSE "match"

\* index.or(style).or(js).or(upload): the first filter that matches, else
\* the combined rejection, in which any other rejection outranks NotFound.
Dispatch(method, path) ==
  IF \E i \in 1..Len(Routes) : RouteTry(Routes[i], method, path) = "match"
  THEN Routes[CHOOSE i \in 1..Len(Routes) :
                /\ RouteTry(Routes[i], method, path) = "match"
                /\ \A j \in 1..(i - 1) :
                     RouteTry(Routes[j], method, path) # "match"]
  ELSE IF \E i \in 1..Len(Routes) :
            RouteTry(Routes[i], method, path) = "MethodNotAllowed"
       THEN "MethodNotAllowed"
       ELSE "NotFound"

RejectionStatus(rejection) ==
  IF rejection = "MethodNotAllowed" THEN StatusMethodNotAllowed
  ELSE StatusNotFound

(* ------------------------------ the store ------------------------------ *)

\* An insert that goes to a copy of the map and is lost.
HashMapInsertLost(map, k, v) == map

\* An insert that replaces the map by the one new entry.
HashMapInsertAlone(map, k, v) == [x \in {k} |-> v]

\* HashMap::insert: the key is bound to the value, replacing any old value.
HashMapInsert(map, k, v) ==
  [x \in DOMAIN map \cup {k} |-> IF x = k THEN v ELSE map[x]]

\* A lookup that answers a default entry for a key that is absent
\* (as entry(k).or_default() would).
HashMapGetDefault(map, k) ==
  IF k \in DOMAIN map THEN [some |-> TRUE, value |-> map[k]]
  ELSE [some |-> TRUE, value |-> NoImage]

\* HashMap::get: Some(value) or None.
HashMapGet(map, k) ==
  IF k \in DOMAIN map THEN [some |-> TRUE, value |-> map[k]]
  ELSE [some |-> FALSE, value |-> NoImage]

\* RwLock::write().await completes when nobody holds the lock.
CanWrite(l) == l.writer = NoTask /\ l.readers = {}

\* RwLock::read().await completes when nobody holds it for writing.
CanRead(l) == l.writer = NoTask

\* A generator that returns the same id to every call.
UlidNewRepeats(n) == 1

\* Ulid::new(): a millisecond timestamp and 80 random bits.  The generator's
\* uniqueness is taken as given: the call returns an id no earlier call
\* returned, and the ids are numbered in the order of their generation.
\* The map itself does not enforce it (HashMapInsert replaces).
UlidNew(n) == n + 1

(* ------------------------------- requests ------------------------------ *)

\* The path segments a request for an image can carry: the ids uploads can
\* be given, one of them with the .jpg suffix, and two malformed segments.
Names ==
  { UlidToString(i) : i \in 1..NumTasks }
  \cup { UlidToString(1) \o JpgSuffix }
  \cup { << "n","o","t","-","a","-","v","a","l","i","d","-","i","d" >>,
         [i \in 1..ULID_LEN |-> "U"] }

Paths ==
  { [head |-> h, rest |-> NoSeg] : h \in {"", "style.css", "main.js", "upload"} }
  \cup { [head |-> "images", rest |-> UlidToString(i)] : i \in 1..NumTasks }

\* The bodies uploads carry: bytes that are no image, and one image of each
\* format and color type, the PNGs 1 wide and the JPEG 1 high (SpecCrush
\* runs the transform on every size), and one image too wide to double.
Uploads ==
  {JunkBody, WideBody}
  \cup { b \in ImageBodies :
           \/ b.fmt = "png" /\ b.w = 1 /\ b.h = MaxDim
           \/ b.fmt = "jpeg" /\ b.w = MaxDim /\ b.h = 1 }

\* The least and the greatest element of a set of numbers.
Extremes(S) ==
  { x \in S : (\A y \in S : x <= y) \/ (\A y \in S : x >= y) }

\* The qualities the passes of an upload draw (SpecCrush draws every one).
UploadQualities == [1..Passes -> Extremes(Qualities)]

Set(t, r) == task' = [task EXCEPT ![t] = r]

\* A request reaches warp::serve and is dispatched: a template route answers
\* at once, the upload route starts handle_upload, anything else is rejected.
WarpRequest(t, method, path, body) ==
  /\ main_pc = "serve"
  /\ task[t].handler = "idle"
  /\ LET d == Dispatch(method, path)
         req == [task[t] EXCEPT !.method = method, !.path = path]
         reply(r) == [req EXCEPT !.handler = d, !.pc = "done",
                                 !.resp = for_warp(r), !.error = Logged(r)]
     IN CASE d = "index" ->
               Set(t, reply(serve_template(IndexName, html)))
          [] d = "style" ->
               Set(t, reply(serve_template(StyleName, css)))
          [] d = "js" ->
               Set(t, reply(serve_template(JsName, js)))
          [] d = "upload" ->
               Set(t, [req EXCEPT !.handler = "upload", !.pc = "crush",
                                  !.body = body])
          [] OTHER ->
               Set(t, [req EXCEPT !.handler = "rejected", !.pc = "done",
                         !.resp = [status |-> RejectionStatus(d),
                                   ctype |-> "", body |-> Empty]])
  /\ UNCHANGED << main_pc, compiled, templates, images, lock, ulids, crush >>

\* handle_upload, lines 323-334: decode, bitcrush, encode at JPEG_QUALITY,
\* then a new id, the src and the Image.  Any error is returned through `?`;
\* a panic of bitcrush ends the task without a reply.
UploadCrush(t) ==
  /\ task[t].handler = "upload"
  /\ task[t].pc = "crush"
  /\ LET dec == load_from_memory(task[t].body)
         failed(e) == [task[t] EXCEPT !.pc = "done",
                                      !.resp = for_warp(Err(e)),
                                      !.error = Logged(Err(e))]
     IN IF ~dec.ok
        THEN /\ Set(t, failed(dec.error))
             /\ UNCHANGED ulids
        ELSE
          \/ /\ DrawCanPanic(dec.img.w, dec.img.h)
             /\ Set(t, [task[t] EXCEPT !.pc = "panicked"])
             /\ UNCHANGED ulids
          \/ \E temp_w \in TempWidths(dec.img.w),
                temp_h \in TempHeights(dec.img.h),
                qualities \in UploadQualities :
                LET img == bitcrush(dec.img, temp_w, temp_h, qualities)
                    output == encode_image(img.img, JPEG_QUALITY)
                    id == UlidNew(ulids)
                IN IF ~img.ok \/ ~output.ok
                   THEN /\ Set(t, failed(IF img.ok THEN output.error
                                          ELSE img.error))
                        /\ UNCHANGED ulids
                   ELSE /\ ulids' = id
                        /\ Set(t, [task[t] EXCEPT
                                     !.pc = "write",
                                     !.id = id,
                                     !.src = [head |-> "images",
                                              rest |-> UlidToString(id)],
                                     !.img = [mime |-> jpeg,
                                              contents |-> output.bytes]])
  /\ UNCHANGED << main_pc, compiled, templates, images, lock, crush >>

\* line 337: state.images.write().await
UploadWrite(t) ==
  /\ task[t].handler = "upload"
  /\ task[t].pc = "write"
  /\ CanWrite(lock)
  /\ lock' = [lock EXCEPT !.writer = t]
  /\ Set(t, [task[t] EXCEPT !.pc = "insert"])
  /\ UNCHANGED << main_pc, compiled, templates, images, ulids, crush >>

\* line 338: images.insert(id, img)
UploadInsert(t) ==
  /\ task[t].handler = "upload"
  /\ task[t].pc = "insert"
  /\ images' = HashMapInsert(images, task[t].id, task[t].img)
  /\ Set(t, [task[t] EXCEPT !.pc = "unlock"])
  /\ UNCHANGED << main_pc, compiled, templates, lock, ulids, crush >>

\* The write guard kept until the end of handle_upload.
UploadUnlockKeeps(t) ==
  /\ task[t].handler = "upload"
  /\ task[t].pc = "unlock"
  /\ Set(t, [task[t] EXCEPT !.pc = "reply"])
  /\ UNCHANGED << main_pc, compiled, templates, images, lock, ulids, crush >>

\* line 339: the write guard goes out of scope
UploadUnlock(t) ==
  /\ task[t].handler = "upload"
  /\ task[t].pc = "unlock"
  /\ lock' = [lock EXCEPT !.writer = NoTask]
  /\ Set(t, [task[t] EXCEPT !.pc = "reply"])
  /\ UNCHANGED << main_pc, compiled, templates, images, ulids, crush >>

\* A reply whose payload fails to serialize, after the insert.
UploadReplyFails(t) ==
  /\ task[t].handler = "upload"
  /\ task[t].pc = "reply"
  /\ Set(t, [task[t] EXCEPT !.pc = "done",
                            !.resp = for_warp(Err(SerializeError)),
                            !.error = SerializeError])
  /\ UNCHANGED << main_pc, compiled, templates, images, lock, ulids, crush >>

\* lines 341-345: the JSON payload naming src, as the reply
UploadReply(t) ==
  /\ task[t].handler = "upload"
  /\ task[t].pc = "reply"
  /\ Set(t, [task[t] EXCEPT
               !.pc = "done",
               !.resp = for_warp(Ok([status |-> StatusOk, ctype |-> json,
                                     body |-> Json(task[t].src)]))])
  /\ UNCHANGED << main_pc, compiled, templates, images, lock, ulids, crush >>

\* serve_image, lines 304-308, called with the "name" parameter of a request
\* (the route of lines 296-297): the suffix is trimmed, the id parsed.
ServeParse(t, name) ==
  /\ main_pc = "serve"
  /\ task[t].handler = "idle"
  /\ LET parsed == UlidFromString(TrimEndMatches(name, JpgSuffix))
         req == [task[t] EXCEPT !.handler = "serve_image", !.method = "GET",
                                !.name = name]
     IN IF ~parsed.ok
        THEN Set(t, [req EXCEPT !.pc = "done",
                                !.resp = for_tide(Err(InvalidID)),
                                !.error = Logged(Err(InvalidID))])
        ELSE Set(t, [req EXCEPT !.pc = "read", !.id = parsed.id])
  /\ UNCHANGED << main_pc, compiled, templates, images, lock, ulids, crush >>

\* line 310: req.state().images.read().await
ServeRead(t) ==
  /\ task[t].handler = "serve_image"
  /\ task[t].pc = "read"
  /\ CanRead(lock)
  /\ lock' = [lock EXCEPT !.readers = lock.readers \cup {t}]
  /\ Set(t, [task[t] EXCEPT !.pc = "get"])
  /\ UNCHANGED << main_pc, compiled, templates, images, ulids, crush >>

\* A lookup that records a miss in the map (images.entry(id).or_default()).
ServeGetInserts(t) ==
  /\ task[t].handler = "serve_image"
  /\ task[t].pc = "get"
  /\ images' = IF task[t].id \in DOMAIN images THEN images
               ELSE HashMapInsert(images, task[t].id, NoImage)
  /\ Set(t, [task[t] EXCEPT
               !.pc = "return",
               !.resp = [status |-> StatusOk,
                         ctype |-> images'[task[t].id].mime,
                         body |-> Bytes(images'[task[t].id].contents)]])
  /\ UNCHANGED << main_pc, compiled, templates, lock, ulids, crush >>

\* lines 311-317: the lookup and the response built from it
ServeGet(t) ==
  /\ task[t].handler = "serve_image"
  /\ task[t].pc = "get"
  /\ LET found == HashMapGet(images, task[t].id)
         res == IF found.some
                THEN [status |-> StatusOk, ctype |-> found.value.mime,
                      body |-> Bytes(found.value.contents)]
                ELSE [status |-> StatusNotFound, ctype |-> "", body |-> Empty]
     IN Set(t, [task[t] EXCEPT !.pc = "return", !.resp = for_tide(Ok(res))])
  /\ UNCHANGED << main_pc, compiled, templates, images, lock, ulids, crush >>

\* the end of serve_image: the read guard is dropped, the response returned
ServeReturn(t) ==
  /\ task[t].handler = "serve_image"
  /\ task[t].pc = "return"
  /\ lock' = [lock EXCEPT !.readers = lock.readers \ {t}]
  /\ Set(t, [task[t] EXCEPT !.pc = "done"])
  /\ UNCHANGED << main_pc, compiled, templates, images, ulids, crush >>

Next ==
  \/ \E ok \in BOOLEAN : compile_templates(ok)
  \/ \E t \in Tasks, m \in Methods, p \in Paths :
       \E b \in (IF Dispatch(m, p) = "upload" THEN Uploads ELSE {NoBody}) :
         WarpRequest(t, m, p, b)
  \/ \E t \in Tasks : UploadCrush(t)
  \/ \E t \in Tasks : UploadWrite(t)
  \/ \E t \in Tasks : UploadInsert(t)
  \/ \E t \in Tasks : UploadUnlock(t)
  \/ \E t \in Tasks : UploadReply(t)
  \/ \E t \in Tasks, n \in Names : ServeParse(t, n)
  \/ \E t \in Tasks : ServeRead(t)
  \/ \E t \in Tasks : ServeGet(t)
  \/ \E t \in Tasks : ServeReturn(t)

Spec == Init /\ [][Next]_vars

\* The steps of the request task t once it has been dispatched.
TaskStep(t) ==
  \/ UploadCrush(t)
  \/ UploadWrite(t)
  \/ UploadInsert(t)
  \/ UploadUnlock(t)
  \/ UploadReply(t)
  \/ ServeRead(t)
  \/ ServeGet(t)
  \/ ServeReturn(t)

\* The runtime polls every task that can make progress: a task that stays
\* ready takes its next step.
SpecFair == Spec /\ \A t \in Tasks : WF_vars(TaskStep(t))

(* ------------------------- bitcrush on its own ------------------------- *)

\* The images a decoder can hand to bitcrush: the small ones of every color
\* type, and those one pixel across whose other dimension is too large to
\* double.
DecodedImages ==
  { [color |-> c, w |-> w, h |-> h, rot |-> 0, hue |-> 0] :
      c \in Colors, w \in 1..MaxDim, h \in 1..MaxDim }
  \cup { [color |-> "Rgb8", w |-> w, h |-> 1, rot |-> 0, hue |-> 0] :
           w \in WideDims }
  \cup { [color |-> "Rgb8", w |-> 1, h |-> h, rot |-> 0, hue |-> 0] :
           h \in WideDims }

InitCrush ==
  /\ main_pc = "compile"
  /\ compiled = 0
  /\ templates = {}
  /\ StateNew
  /\ ulids = 0
  /\ task = [t \in Tasks |-> IdleTask]
  /\ \E img \in DecodedImages :
       crush = [IdleCrush EXCEPT !.pc = "draw", !.orig = img, !.current = img]

\* lines 115-122: the original size is recorded, the intermediate size drawn
\* (or the thread panics)
CrushDraw ==
  /\ crush.pc = "draw"
  /\ \/ /\ DrawCanPanic(crush.orig.w, crush.orig.h)
        /\ crush' = [crush EXCEPT !.pc = "panicked", !.current = NoPixels]
     \/ \E temp_w \in TempWidths(crush.orig.w),
           temp_h \in TempHeights(crush.orig.h) :
          crush' = [crush EXCEPT !.pc = "loop", !.temp_w = temp_w,
                                 !.temp_h = temp_h]
  /\ UNCHANGED << main_pc, compiled, templates, images, lock, ulids, task >>

\* lines 125-138: one iteration, with the quality it draws; an error of the
\* encoder or of the decoder is returned at once
CrushIterate ==
  /\ crush.pc = "loop"
  /\ crush.pass < Passes
  /\ \E quality \in Qualities :
       LET r == CrushPass(crush.current, crush.temp_w, crush.temp_h, quality,
                          crush.orig.w, crush.orig.h)
       IN crush' = IF r.ok
                   THEN [crush EXCEPT !.current = r.img, !.pass = crush.pass + 1,
                                      !.quality = quality]
                   ELSE [crush EXCEPT !.pc = "returned", !.ok = FALSE,
                                      !.current = NoPixels,
                                      !.quality = quality]
  /\ UNCHANGED << main_pc, compiled, templates, images, lock, ulids, task >>

\* line 140: Ok(current)
CrushReturn ==
  /\ crush.pc = "loop"
  /\ crush.pass = Passes
  /\ crush' = [crush EXCEPT !.pc = "returned", !.ok = TRUE]
  /\ UNCHANGED << main_pc, compiled, templates, images, lock, ulids, task >>

NextCrush ==
  \/ CrushDraw
  \/ CrushIterate
  \/ CrushReturn

SpecCrush == InitCrush /\ [][NextCrush]_vars

(* ------------------------------ properties ----------------------------- *)

\* C8: whenever bitcrush returns Ok, for every input size, intermediate size
\* and pass qualities, the image it returns has exactly the size of the
\* image it was given (otherwise it has returned an error).
TransformPreservesDimensions ==
  crush.pc = "returned" =>
    \/ ~crush.ok
    \/ /\ crush.current.w = crush.orig.w
       /\ crush.current.h = crush.orig.h

\* A 2x1 image went through both passes at an intermediate size other than
\* its own and came back.
TransformPreservesDimensionsWitness ==
  /\ crush.pc = "returned"
  /\ crush.ok
  /\ crush.orig.w = 2
  /\ crush.orig.h = 1
  /\ crush.temp_w = 3
  /\ crush.current.w = 2
  /\ crush.current.h = 1

\* The uploads whose insert has returned.
Inserted ==
  { t \in Tasks : /\ task[t].handler = "upload"
                  /\ task[t].id # NoUlid
                  /\ task[t].pc \in {"unlock", "reply", "done"} }

\* The uploads that have answered with the JSON payload.
Answered ==
  { t \in Tasks : /\ task[t].handler = "upload"
                  /\ task[t].pc = "done"
                  /\ task[t].resp.status = StatusOk }

\* The step in which task t performs its lookup (line 311).
Lookup(t) ==
  /\ task[t].handler = "serve_image"
  /\ task[t].pc = "get"
  /\ task'[t].pc = "return"

\* C1: a lookup performed by any task after the insert of an upload has
\* returned finds that upload's id and answers with exactly the content
\* type and the bytes that were inserted.
ReadAfterWrite ==
  [][\A s \in Tasks : \A u \in Inserted :
       (Lookup(s) /\ task[s].id = task[u].id) =>
         /\ task'[s].resp.status = StatusOk
         /\ task'[s].resp.ctype = task[u].img.mime
         /\ task'[s].resp.body = Bytes(task[u].img.contents)]_vars

\* A task has looked up the id of another task's finished upload and holds
\* the 200 response carrying that upload's bytes.
ReadAfterWriteWitness ==
  \E s \in Tasks : \E u \in Inserted :
    /\ s # u
    /\ task[s].handler = "serve_image"
    /\ task[s].pc = "done"
    /\ task[s].id = task[u].id
    /\ task[s].resp.status = StatusOk
    /\ task[s].resp.body = Bytes(task[u].img.contents)

\* C2 (as claimed): a GET on the src an upload has answered with is
\* dispatched to serve_image, and is not answered with an error.
EndToEndRetrieval ==
  [][\A g \in Tasks : \A u \in Answered :
       ( /\ task[g].handler = "idle"
         /\ task'[g].method = "GET"
         /\ task'[g].path = task[u].resp.body.v ) =>
         /\ task'[g].handler = "serve_image"
         /\ task'[g].resp.status \in {NoResponse.status, StatusOk}]_vars

\* C3: the map starts empty, and no step removes a key or changes the image
\* a key is bound to.
WriteOnce ==
  /\ images = << >>
  /\ [][\A id \in DOMAIN images :
          /\ id \in DOMAIN images'
          /\ images'[id] = images[id]]_vars

\* The map holds the different images of two uploads: the first entry
\* survived the second insert.
WriteOnceWitness ==
  \E t, u \in Inserted :
    /\ DOMAIN images = { task[t].id, task[u].id }
    /\ images[task[t].id] = task[t].img
    /\ images[task[u].id] = task[u].img
    /\ task[t].img # task[u].img

\* C4: an upload that answers with a server error has generated no id and
\* inserted nothing; the entries of the map are exactly those of the uploads
\* whose insert has returned, and none of these answers with an error.
FailedUploadLeavesNoTrace ==
  /\ \A t \in Tasks :
       (task[t].handler = "upload"
          /\ task[t].resp.status = StatusInternalServerError) =>
         /\ task[t].id = NoUlid
         /\ t \notin Inserted
  /\ DOMAIN images = { task[t].id : t \in Inserted }
  /\ Cardinality(DOMAIN images) = Cardinality(Inserted)
  /\ \A t \in Inserted :
       task[t].pc = "done" => task[t].resp.status = StatusOk

\* An upload of bytes that are no image has answered 500, another upload
\* has answered 200, and the map holds the entry of the second only.
FailedUploadLeavesNoTraceWitness ==
  \E t, u \in Tasks :
    /\ task[t].handler = "upload"
    /\ task[t].body = JunkBody
    /\ task[t].resp.status = StatusInternalServerError
    /\ u \in Answered
    /\ DOMAIN images = { task[u].id }

\* C5: every upload whose insert has returned has its own image in the map
\* under its own id, no two uploads share an id, the map holds one entry per
\* such upload, and the src an upload answers with parses to its id.
NoLostUploads ==
  /\ \A t \in Inserted :
       /\ task[t].id \in DOMAIN images
       /\ images[task[t].id] = task[t].img
  /\ \A t, u \in Inserted : t # u => task[t].id # task[u].id
  /\ Cardinality(DOMAIN images) = Cardinality(Inserted)
  /\ \A t \in Answered :
       /\ task[t].resp.body.v.head = "images"
       /\ UlidFromString(task[t].resp.body.v.rest) =
            [ok |-> TRUE, id |-> task[t].id]

\* Two uploads of different images, in flight together, have both answered,
\* and both entries are in the map.
NoLostUploadsWitness ==
  \E t, u \in Answered :
    /\ t # u
    /\ task[t].img # task[u].img
    /\ Cardinality(DOMAIN images) = 2

\* C6 (as claimed): a serve_image request whose name, the .jpg suffix
\* trimmed, is no well-formed id is answered with a 4xx status.
MalformedIdIsClientError ==
  \A t \in Tasks :
    ( /\ task[t].handler = "serve_image"
      /\ task[t].pc = "done"
      /\ ~UlidFromString(TrimEndMatches(task[t].name, JpgSuffix)).ok ) =>
      task[t].resp.status \in 400..499

\* C7: a serve_image request for a well-formed id that is not in the map
\* (the map never loses a key, so: that was never inserted) has looked up
\* and answers 404.
UnknownIdNotFound ==
  \A t \in Tasks :
    ( /\ task[t].handler = "serve_image"
      /\ task[t].pc \in {"return", "done"}
      /\ UlidFromString(TrimEndMatches(task[t].name, JpgSuffix)).ok
      /\ task[t].id \notin DOMAIN images ) =>
      task[t].resp.status = StatusNotFound

\* A request for an id nobody inserted was answered 404 while the map held
\* another id.
UnknownIdNotFoundWitness ==
  \E t \in Tasks :
    /\ task[t].handler = "serve_image"
    /\ task[t].pc = "done"
    /\ task[t].id \notin DOMAIN images
    /\ task[t].resp.status = StatusNotFound
    /\ images # << >>

\* C9: whoever holds the write lock is an upload between its insert and the
\* end of the guard's block: no task holds it in the decode/transform/encode
\* phase or while the response is built; and the readers are the
\* serve_image calls between lookup and return.
TransformOutsideLock ==
  /\ \A t \in Tasks :
       lock.writer = t <=>
         (task[t].handler = "upload" /\ task[t].pc \in {"insert", "unlock"})
  /\ \A t \in Tasks :
       t \in lock.readers <=>
         (task[t].handler = "serve_image" /\ task[t].pc \in {"get", "return"})
  /\ lock.writer \in Tasks \cup {NoTask}
  /\ lock.readers \subseteq Tasks

\* One upload is about to transform while another holds the write lock.
TransformOutsideLockWitness ==
  \E t, u \in Tasks :
    /\ task[t].handler = "upload"
    /\ task[t].pc = "crush"
    /\ lock.writer = u
    /\ task[u].pc = "insert"

\* C10: no step of a retrieval request (a serve_image call, or a GET that
\* warp answers itself), whatever its outcome, changes the map.
RetrievalReadOnly ==
  [][\A t \in Tasks :
       (task'[t] # task[t] /\ task'[t].method = "GET") =>
         images' = images]_vars

\* A retrieval that found its image has returned, and the map still holds
\* exactly the entry the upload inserted.
RetrievalReadOnlyWitness ==
  \E s \in Tasks : \E u \in Inserted :
    /\ task[s].handler = "serve_image"
    /\ task[s].pc = "done"
    /\ task[s].resp.status = StatusOk
    /\ DOMAIN images = { task[u].id }
    /\ images[task[u].id] = task[u].img

\* The requests whose handling raised an error, and those answered 500.
Failed == { t \in Tasks : task[t].error # "" }

ServerErrors ==
  { t \in Tasks : task[t].resp.status = StatusInternalServerError }

\* The fixed body of each boundary (lines 97 and 40).
BoundaryMessage(handler) ==
  IF handler = "serve_image" THEN "Something went wrong, sorry!"
  ELSE "Something went wrong, sorry"

StoredContentTypeIsJpeg ==
  /\ \A id \in DOMAIN images : images[id].mime = "image/jpeg"
  /\ \A t \in Tasks :
       (task[t].handler = "upload" /\ task[t].pc \in {"write", "insert"}) =>
         task[t].img.mime = "image/jpeg"
  /\ \A t \in Tasks :
       (task[t].handler = "serve_image" /\ task[t].resp.status = StatusOk) =>
         /\ task[t].id \in DOMAIN images
         /\ task[t].resp.ctype = images[task[t].id].mime
         /\ task[t].resp.ctype = "image/jpeg"

\* The image of an uploaded PNG is in the map as image/jpeg, and a retrieval
\* of it has answered 200 with that content type.
StoredContentTypeIsJpegWitness ==
  \E s \in Tasks : \E u \in Inserted :
    /\ task[u].body.fmt = "png"
    /\ images[task[u].id].mime = "image/jpeg"
    /\ task[s].handler = "serve_image"
    /\ task[s].pc = "done"
    /\ task[s].id = task[u].id
    /\ task[s].resp.status = StatusOk
    /\ task[s].resp.ctype = "image/jpeg"

\* The values of a dimension.
Dims == 0..(DimModulus - 1)

\* The intermediate widths, heights and pass qualities the next step of
\* bitcrush can draw in the current state.
DrawableWidths ==
  { w \in Dims : ENABLED (CrushDraw /\ crush'.pc = "loop" /\ crush'.temp_w = w) }

DrawableHeights ==
  { h \in Dims : ENABLED (CrushDraw /\ crush'.pc = "loop" /\ crush'.temp_h = h) }

DrawableQualities ==
  { q \in 0..(QualityHigh + 1) : ENABLED (CrushIterate /\ crush'.quality = q) }

\* The same, among the ends of the quality range and their neighbours.
DrawableQualityEnds ==
  { q \in {QualityLow - 1, QualityLow, QualityHigh - 1, QualityHigh} :
      ENABLED (CrushIterate /\ crush'.quality = q) }

\* Neither doubling of the original's dimensions overflows.
DoublesFit == ~DoubleOverflows(crush.orig.w) /\ ~DoubleOverflows(crush.orig.h)

\* C13 as stated: for an input of size (W, H) the drawable widths are
\* exactly W/2 ..= W*2, the drawable heights exactly H/2 ..= H*2, and the
\* drawable qualities of a pass exactly 10 ..= 30, both ends included.
InclusiveRandomRanges ==
  /\ (crush.pc = "draw" /\ DoublesFit) =>
       /\ DrawableWidths = (crush.orig.w \div 2)..(crush.orig.w * 2)
       /\ DrawableHeights = (crush.orig.h \div 2)..(crush.orig.h * 2)
  /\ (crush.pc = "loop" /\ crush.pass = 0) =>
       DrawableQualities = QualityLow..QualityHigh
  /\ (crush.pc = "loop" /\ crush.pass < Passes) =>
       DrawableQualityEnds = {QualityLow, QualityHigh}

\* C13, amended: the upper ends are excluded.  When the doublings fit, the
\* drawable widths are exactly W/2 ..= W*2 - 1, the drawable heights exactly
\* H/2 ..= H*2 - 1; the drawable qualities are exactly 10 ..= 29 (every
\* value in the first pass; both ends, and neither 9 nor 30, in every
\* pass); and no size or quality in use lies outside these ranges.  When
\* a doubling overflows, the draw can panic, and a build that wraps draws
\* below the wrapped product.
HalfOpenRandomRanges ==
  /\ (crush.pc = "draw" /\ DoublesFit) =>
       /\ DrawableWidths = (crush.orig.w \div 2)..(crush.orig.w * 2 - 1)
       /\ DrawableHeights = (crush.orig.h \div 2)..(crush.orig.h * 2 - 1)
  /\ (crush.pc = "draw" /\ ~DoublesFit) =>
       /\ ENABLED (CrushDraw /\ crush'.pc = "panicked")
       /\ DrawableWidths \subseteq
            (crush.orig.w \div 2)..(WrappingDouble(crush.orig.w) - 1)
       /\ DrawableHeights \subseteq
            (crush.orig.h \div 2)..(WrappingDouble(crush.orig.h) - 1)
  /\ (crush.pc = "loop" /\ crush.pass = 0) =>
       DrawableQualities = QualityLow..(QualityHigh - 1)
  /\ (crush.pc = "loop" /\ crush.pass < Passes) =>
       DrawableQualityEnds = {QualityLow, QualityHigh - 1}
  /\ crush.pc \in {"loop", "returned"} =>
       /\ crush.temp_w \in
            (crush.orig.w \div 2)..(WrappingDouble(crush.orig.w) - 1)
       /\ crush.temp_h \in
            (crush.orig.h \div 2)..(WrappingDouble(crush.orig.h) - 1)
       /\ (crush.pass > 0 \/ crush.pc = "returned") =>
            crush.quality \in QualityLow..(QualityHigh - 1)

\* A 2x2 image came back after the greatest size a draw can give, 3x3, and
\* a last pass at the greatest quality a draw can give, 29.
HalfOpenRandomRangesWitness ==
  /\ crush.pc = "returned"
  /\ crush.ok
  /\ crush.orig.w = 2
  /\ crush.orig.h = 2
  /\ crush.temp_w = crush.orig.w * 2 - 1
  /\ crush.temp_h = crush.orig.h * 2 - 1
  /\ crush.quality = QualityHigh - 1

\* C14: for every decoded size, those with a dimension of 1 and those whose
\* doubling overflows included, bitcrush never panics: it returns Ok or Err.
TransformNeverPanics == crush.pc # "panicked"

\* The calls of serve_image.
Retrievals == { t \in Tasks : task[t].handler = "serve_image" }

\* C15: a call of serve_image with the name "<id>.jpg" resolves to the same
\* id as a call with "<id>", so it gets the response of the bare name (the
\* stored content type and bytes, or not found), and trimming leaves a
\* well-formed bare id as it is.
SuffixNormalization ==
  /\ \A t \in Retrievals : \A i \in 1..NumTasks :
       /\ task[t].name = UlidToString(i) =>
            TrimEndMatches(task[t].name, JpgSuffix) = task[t].name
       /\ task[t].name \in {UlidToString(i), UlidToString(i) \o JpgSuffix} =>
            /\ task[t].error = ""
            /\ task[t].id = i
            /\ task[t].pc = "done" =>
                 \/ /\ i \notin DOMAIN images
                    /\ task[t].resp.status = StatusNotFound
                 \/ /\ i \in DOMAIN images
                    /\ task[t].resp.status \in {StatusOk, StatusNotFound}
                    /\ task[t].resp.status = StatusOk =>
                         /\ task[t].resp.ctype = images[i].mime
                         /\ task[t].resp.body = Bytes(images[i].contents)
  /\ \A t, u \in Retrievals :
       task[u].name = task[t].name \o JpgSuffix =>
         /\ UlidFromString(TrimEndMatches(task[u].name, JpgSuffix)) =
              UlidFromString(TrimEndMatches(task[t].name, JpgSuffix))
         /\ task[u].id = task[t].id
         /\ ( /\ task[t].pc = "done"
              /\ task[u].pc = "done"
              /\ task[t].resp.status = task[u].resp.status ) =>
              task[t].resp = task[u].resp

\* An upload has answered with id 1, and a call of serve_image with the name
\* of that id followed by ".jpg" has returned its bytes.
SuffixNormalizationWitness ==
  \E t \in Answered : \E u \in Retrievals :
    /\ task[t].id = 1
    /\ task[u].name = UlidToString(1) \o JpgSuffix
    /\ task[u].pc = "done"
    /\ task[u].resp.status = StatusOk
    /\ task[u].resp.body = Bytes(images[1].contents)

\* The requests answered by a template route.
TemplateRequests == { t \in Tasks : task[t].handler \in {"index", "style", "js"} }

\* C16: no request is handled before all three templates are compiled; if a
\* template fails main exits, nothing is served then or later; and once
\* serving, every name a template route looks up is in the registry, so the
\* route answers 200 with the markup and no TemplateNotFound error.
StartupOrdering ==
  /\ (\E t \in Tasks : task[t].handler # "idle") =>
       /\ main_pc = "serve"
       /\ compiled = Len(TemplatePaths)
  /\ main_pc = "serve" =>
       /\ compiled = Len(TemplatePaths)
       /\ templates = {IndexName, StyleName, JsName}
  /\ main_pc = "exit" =>
       /\ compiled < Len(TemplatePaths)
       /\ \A t \in Tasks : task[t] = IdleTask
       /\ ~ENABLED Next
  /\ \A t \in TemplateRequests :
       /\ task[t].error = ""
       /\ task[t].resp.status = StatusOk
       /\ task[t].resp.body =
            Text(CASE task[t].handler = "index" -> "index.html"
                   [] task[t].handler = "style" -> "style.css"
                   [] task[t].handler = "js" -> "main.js")

\* After the three templates compiled, GET /style.css was answered with the
\* markup of style.css.
StartupOrderingWitness ==
  /\ main_pc = "serve"
  /\ \E t \in TemplateRequests :
       /\ task[t].handler = "style"
       /\ task[t].pc = "done"
       /\ task[t].resp.status = StatusOk
       /\ task[t].resp.ctype = css

\* C17: under fair scheduling every upload and every retrieval eventually
\* has its response, and every task that holds the lock, for writing or for
\* reading, eventually releases it.
EveryRequestResponds ==
  /\ \A t \in Tasks :
       (task[t].handler \in {"upload", "serve_image"}) ~>
         (task[t].pc = "done" /\ task[t].resp.status # 0)
  /\ \A t \in Tasks : (lock.writer = t) ~> (lock.writer # t)
  /\ \A t \in Tasks : (t \in lock.readers) ~> (t \notin lock.readers)

====
